---- MODULE Spec2Model ----
(***************************************************************************)
(* A model of xnas/search_space/cell_based.py: the cell based search space *)
(* (DARTS cells, the mixed operation of an edge, the genotype codec and    *)
(* the macro network).  Tensors are modelled by what the code looks at:    *)
(* their rows, their shapes and the order of their elements.               *)
(***************************************************************************)
EXTENDS Integers, Sequences, FiniteSets, TLC

VARIABLES
    \* darts_weight_unpack / gdas_indexes_unpack
    weight,         \* the flat sequence handed to the unpack functions
    n_nodes,        \* the node count handed to them
    w_dag,          \* what darts_weight_unpack returned
    i_dag,          \* what gdas_indexes_unpack returned
    returned,       \* the functions that have returned
    \* _MixedOp
    ops,            \* self._ops: one primitive per name of basic_op_list
    evalCount,      \* per primitive, the number of times it was evaluated
    calls,          \* the number of calls made on the edge
    call,           \* the last call: method, arguments, result
    \* parse_from_numpy
    alpha,          \* the per-node weight groups handed to parse_from_numpy
    basic_op_list,  \* the vocabulary handed to it
    parsed,         \* what it returned (or raised)
    \* DartsCNN.__init__
    args,           \* the arguments of the constructor
    build,          \* the locals of the constructor while it runs
    net,            \* the network once constructed
    \* DartsCNN.genotype_to_onehot_sample and DartsCNN.genotype
    genotype,       \* the genotype handed to genotype_to_onehot_sample
    sample,         \* the one-hot tensor it returned (or what it raised)
    decoded,        \* what genotype(sample) returned
    resample,       \* what genotype_to_onehot_sample returned for that
    \* DartsCNN.forward and GDAS.forwardGDAS
    x,              \* the input batch
    arch,           \* the architecture weight tensor (the argument sample)
    tau,            \* self.tau of a GDAS network
    pass,           \* the locals of the forward call that is running
    selectorLog,    \* the calls of get_gumbel_prob that have returned
    cellLog         \* the cells called, with the weights handed to each

unpackVars == <<weight, n_nodes, w_dag, i_dag, returned>>

mixedVars == <<ops, evalCount, calls, call>>

parseVars == <<alpha, basic_op_list, parsed>>

buildVars == <<args, build, net>>

codecVars == <<genotype, sample, decoded, resample>>

passVars == <<x, arch, tau, pass, selectorLog, cellLog>>

vars == <<unpackVars, mixedVars, parseVars, buildVars, codecVars, passVars>>

----------------------------------------------------------------------------
(* The parts of the state a specification does not use stay as they are here *)

IdleUnpack ==
    /\ weight = <<>>
    /\ n_nodes = 0
    /\ w_dag = <<>>
    /\ i_dag = <<>>
    /\ returned = {}

IdleMixed ==
    /\ ops = <<>>
    /\ evalCount = <<>>
    /\ calls = 0
    /\ call = [method |-> "none"]

IdleParse ==
    /\ alpha = <<>>
    /\ basic_op_list = <<>>
    /\ parsed = [kind |-> "none"]

IdleBuild ==
    /\ args = [cls |-> "none"]
    /\ build = [pc |-> "none"]
    /\ net = [cls |-> "none"]

IdleCodec ==
    /\ genotype = <<>>
    /\ sample = [kind |-> "none"]
    /\ decoded = [kind |-> "none"]
    /\ resample = [kind |-> "none"]

IdlePass ==
    /\ x = [kind |-> "none"]
    /\ arch = <<>>
    /\ tau = 0
    /\ pass = [pc |-> "none"]
    /\ selectorLog = <<>>
    /\ cellLog = <<>>

----------------------------------------------------------------------------
(* Bounds of the model *)

MaxNodes == 4       \* node counts 1..MaxNodes
ExtraRows == 2      \* a flat sequence is up to ExtraRows longer than needed
MaxOps == 2         \* an edge holds 1..MaxOps primitives
MaxCalls == 2       \* calls made on one edge
MaxRows == 3        \* a weight group handed to parse_from_numpy has 2..MaxRows rows
MaxLayers == 8      \* a network is built with 0..MaxLayers cells
MaxCellNodes == 2   \* whose cells have 1..MaxCellNodes nodes
MaxGeneOps == 2     \* a genotype draws its names among the first MaxGeneOps
MaxNetLayers == 3   \* the small networks run forward have 0..MaxNetLayers cells
MaxRetries == 1     \* degenerate draws of noise in one call of get_gumbel_prob

(* Program constants *)

InputNodes == 2     \* input_nodes=2, the default of both unpack functions
stem_multiplier == 3
C_in == 3           \* self.C_in, the channels of the input image
TopEdges == 2       \* k=2 in DartsCNN.genotype
NoneColumn == 7     \* the column genotype_to_onehot_sample gives an empty row

----------------------------------------------------------------------------
(* Python helpers *)

Min(a, b) == IF a <= b THEN a ELSE b

Max(a, b) == IF a >= b THEN a ELSE b

\* range(n) as a sequence: <<0, ..., n-1>>
Range(n) == [k \in 1..n |-> k - 1]

\* s[a:b] for 0 <= a, 0 <= b (0-based, b exclusive, clamped to len(s))
PySlice(s, a, b) ==
    LET lo == Min(a, Len(s))
        hi == Min(b, Len(s))
    IN  IF lo >= hi THEN <<>> ELSE SubSeq(s, lo + 1, hi)

----------------------------------------------------------------------------
(* darts_weight_unpack, gdas_indexes_unpack *)

\* the mutant: the cursor advances by input_nodes + i, one short
RECURSIVE darts_unpack_loop_short(_, _, _, _, _, _, _)
darts_unpack_loop_short(wt, n, input_nodes, i, start_index, end_index, dag) ==
    IF i >= n THEN dag
    ELSE darts_unpack_loop_short(wt, n, input_nodes, i + 1, end_index,
                                 end_index + input_nodes + i,
                                 Append(dag, PySlice(wt, start_index, end_index)))

\* the loop of darts_weight_unpack: iteration i with the cursor at
\* [start_index, end_index)
RECURSIVE darts_unpack_loop(_, _, _, _, _, _, _)
darts_unpack_loop(wt, n, input_nodes, i, start_index, end_index, dag) ==
    IF i >= n THEN dag
    ELSE darts_unpack_loop(wt, n, input_nodes, i + 1, end_index,
                           end_index + input_nodes + i + 1,
                           Append(dag, PySlice(wt, start_index, end_index)))

darts_weight_unpack_short(wt, n, input_nodes) ==
    darts_unpack_loop_short(wt, n, input_nodes, 0, 0, input_nodes, <<>>)

darts_weight_unpack(wt, n, input_nodes) ==
    darts_unpack_loop(wt, n, input_nodes, 0, 0, input_nodes, <<>>)

RECURSIVE gdas_unpack_loop(_, _, _, _, _, _, _)
gdas_unpack_loop(wt, n, input_nodes, i, start_index, end_index, dag) ==
    IF i >= n THEN dag
    ELSE gdas_unpack_loop(wt, n, input_nodes, i + 1, end_index,
                          end_index + input_nodes + i + 1,
                          Append(dag, PySlice(wt, start_index, end_index)))

\* the mutant: the slices of the indexes start one entry late
gdas_indexes_unpack_late(wt, n, input_nodes) ==
    gdas_unpack_loop(wt, n, input_nodes, 0, 1, input_nodes + 1, <<>>)

gdas_indexes_unpack(wt, n, input_nodes) ==
    gdas_unpack_loop(wt, n, input_nodes, 0, 0, input_nodes, <<>>)

RECURSIVE SumSeq(_)
SumSeq(q) == IF q = <<>> THEN 0 ELSE Head(q) + SumSeq(Tail(q))

\* sum(list(range(2, n + 2))): the number of edges of a cell of n nodes
NumEdges(n) == SumSeq([k \in 1..n |-> k + 1])

InitUnpack ==
    /\ IdlePass
    /\ IdleCodec
    /\ IdleBuild
    /\ IdleMixed
    /\ IdleParse
    /\ n_nodes \in 1..MaxNodes
    /\ \E len \in 0..(NumEdges(n_nodes) + ExtraRows) : weight = Range(len)
    /\ w_dag = <<>>
    /\ i_dag = <<>>
    /\ returned = {}

DartsWeightUnpack ==
    /\ "darts_weight_unpack" \notin returned
    /\ w_dag' = darts_weight_unpack(weight, n_nodes, InputNodes)
    /\ returned' = returned \cup {"darts_weight_unpack"}
    /\ UNCHANGED <<weight, n_nodes, i_dag, mixedVars, parseVars, buildVars, codecVars, passVars>>

GdasIndexesUnpack ==
    /\ "gdas_indexes_unpack" \notin returned
    /\ i_dag' = gdas_indexes_unpack(weight, n_nodes, InputNodes)
    /\ returned' = returned \cup {"gdas_indexes_unpack"}
    /\ UNCHANGED <<weight, n_nodes, w_dag, mixedVars, parseVars, buildVars, codecVars, passVars>>

NextUnpack == DartsWeightUnpack \/ GdasIndexesUnpack

SpecUnpack == InitUnpack /\ [][NextUnpack]_vars

----------------------------------------------------------------------------
(* C1 *)

\* the flat position where the group of node i starts: sum_{m<i}(2+m)
GroupStart(i) == 2 * i + (i * (i - 1)) \div 2

\* the groups the layout of the flat sequence asks for, on positions 0..S-1
ExpectedGroups(n) ==
    [g \in 1..n |-> [p \in 1..(g + 1) |-> GroupStart(g - 1) + p - 1]]

\* C1: on a flat sequence of exactly S = sum_{i<N}(2+i) entries, both unpack
\* functions return N groups, group i holding the 2+i contiguous positions
\* from sum_{m<i}(2+m) on, so the groups are disjoint, in order and cover
\* 0..S-1; the two functions return the same grouping.
C1_UnpackGroups ==
    (Len(weight) = NumEdges(n_nodes)) =>
        /\ ("darts_weight_unpack" \in returned => w_dag = ExpectedGroups(n_nodes))
        /\ ("gdas_indexes_unpack" \in returned => i_dag = ExpectedGroups(n_nodes))
        /\ (returned = {"darts_weight_unpack", "gdas_indexes_unpack"}
                => w_dag = i_dag)

\* both functions have unpacked a 14 entry sequence for 4 nodes
C1_Witness ==
    /\ n_nodes = 4
    /\ Len(weight) = 14
    /\ returned = {"darts_weight_unpack", "gdas_indexes_unpack"}
    /\ w_dag = <<<<0, 1>>, <<2, 3, 4>>, <<5, 6, 7, 8>>, <<9, 10, 11, 12, 13>>>>

----------------------------------------------------------------------------
(* The operation vocabularies *)

\* the keys of OPS_
OPS_ ==
    {"none", "avg_pool_3x3", "max_pool_3x3", "skip_connect", "sep_conv_3x3",
     "sep_conv_5x5", "sep_conv_7x7", "dil_conv_3x3", "dil_conv_5x5",
     "conv_7x1_1x7", "nor_conv_3x3", "nor_conv_1x1"}

\* the vocabulary DartsCNN falls back on
DARTS_OP ==
    <<"max_pool_3x3", "avg_pool_3x3", "skip_connect", "sep_conv_3x3",
      "sep_conv_5x5", "dil_conv_3x3", "dil_conv_5x5", "none">>

GDAS_OP ==
    <<"none", "skip_connect", "avg_pool_3x3", "max_pool_3x3",
      "dil_conv_3x3", "dil_conv_5x5", "sep_conv_3x3", "sep_conv_5x5">>

\* the last k names of DARTS_OP: a vocabulary of k names ending in 'none'
LastOps(k) == SubSeq(DARTS_OP, Len(DARTS_OP) - k + 1, Len(DARTS_OP))

----------------------------------------------------------------------------
(* _MixedOp.  A weight is counted in halves: 2 is the weight 1.0, 1 is 0.5, *)
(* -1 is -0.5 and 3 is 1.5.  The value of a call is the linear combination  *)
(* of the primitives' outputs it returns: coef[i] halves of primitive i(x). *)

WeightVals == {-1, 0, 1, 2, 3}

\* value == 1
IsOne(value) == value = 2

\* 0 < value < 1
IsFraction(value) == 0 < value /\ value < 2

\* the weight vectors a caller may hand to an edge
WeightVectors == UNION {[1..k -> WeightVals] : k \in 1..MaxOps}

NoCoef(k) == [i \in 1..k |-> 0]

\* one more evaluation of every primitive of the list evaluated (0-based)
RECURSIVE Count(_, _)
Count(counts, evaluated) ==
    IF evaluated = <<>> THEN counts
    ELSE Count([counts EXCEPT ![Head(evaluated) + 1] = @ + 1], Tail(evaluated))

\* the mutant: a primitive whose weight is 0 is evaluated too
RECURSIVE MixedOp_forward_loop_zero(_, _, _, _)
MixedOp_forward_loop_zero(weights, i, coef, evaluated) ==
    IF i >= Len(weights) THEN [coef |-> coef, evaluated |-> evaluated]
    ELSE LET value == weights[i + 1]
         IN  IF IsOne(value)
             THEN MixedOp_forward_loop_zero(weights, i + 1,
                      [coef EXCEPT ![i + 1] = @ + 2], Append(evaluated, i))
             ELSE IF 0 <= value /\ value < 2
             THEN MixedOp_forward_loop_zero(weights, i + 1,
                      [coef EXCEPT ![i + 1] = @ + value], Append(evaluated, i))
             ELSE MixedOp_forward_loop_zero(weights, i + 1, coef, evaluated)

\* the loop of _MixedOp.forward over enumerate(weights): _x as the
\* coefficients summed so far and the primitives evaluated, in order
RECURSIVE MixedOp_forward_loop(_, _, _, _)
MixedOp_forward_loop(weights, i, coef, evaluated) ==
    IF i >= Len(weights) THEN [coef |-> coef, evaluated |-> evaluated]
    ELSE LET value == weights[i + 1]
         IN  IF IsOne(value)
             THEN MixedOp_forward_loop(weights, i + 1,
                      [coef EXCEPT ![i + 1] = @ + 2], Append(evaluated, i))
             ELSE IF IsFraction(value)
             THEN MixedOp_forward_loop(weights, i + 1,
                      [coef EXCEPT ![i + 1] = @ + value], Append(evaluated, i))
             ELSE MixedOp_forward_loop(weights, i + 1, coef, evaluated)

\* _MixedOp.forward(x, weights) on an edge of k primitives: sum(_x) of an
\* empty list is the int 0
MixedOp_forward(k, weights) ==
    IF k # Len(weights)
    THEN [kind |-> "AssertionError", coef |-> NoCoef(k), evaluated |-> <<>>]
    ELSE LET r == MixedOp_forward_loop(weights, 0, NoCoef(k), <<>>)
         IN  [kind |-> IF r.evaluated = <<>> THEN "int" ELSE "tensor",
              coef |-> r.coef, evaluated |-> r.evaluated]

\* the mutant: primitives of weight 0 are left out of the sum
MixedOp_forwardDART_skip(k, weights) ==
    IF k # Len(weights)
    THEN [kind |-> "AssertionError", coef |-> NoCoef(k), evaluated |-> <<>>]
    ELSE [kind |-> "tensor",
          coef |-> [i \in 1..k |-> weights[i]],
          evaluated |-> SelectSeq(Range(k), LAMBDA i : weights[i + 1] # 0)]

\* _MixedOp.forwardDART(x, weights): sum(w*op(x) for w,op in zip(weights,self._ops))
MixedOp_forwardDART(k, weights) ==
    IF k # Len(weights)
    THEN [kind |-> "AssertionError", coef |-> NoCoef(k), evaluated |-> <<>>]
    ELSE [kind |-> "tensor",
          coef |-> [i \in 1..k |-> weights[i]],
          evaluated |-> Range(k)]

\* the mutant: every primitive is evaluated and the chosen one returned
MixedOp_forwardGDAS_dense(k, weights, index) ==
    IF k # Len(weights)
    THEN [kind |-> "AssertionError", coef |-> NoCoef(k), evaluated |-> <<>>]
    ELSE [kind |-> "tensor",
          coef |-> [NoCoef(k) EXCEPT ![index + 1] = weights[index + 1]],
          evaluated |-> Range(k)]

\* _MixedOp.forwardGDAS(x, weights, index): self._ops[index](x)*weights[index]
MixedOp_forwardGDAS(k, weights, index) ==
    IF k # Len(weights)
    THEN [kind |-> "AssertionError", coef |-> NoCoef(k), evaluated |-> <<>>]
    ELSE [kind |-> "tensor",
          coef |-> [NoCoef(k) EXCEPT ![index + 1] = weights[index + 1]],
          evaluated |-> <<index>>]

\* _MixedOp.__init__: one primitive per name of basic_op_list
InitMixed ==
    /\ IdlePass
    /\ IdleCodec
    /\ IdleBuild
    /\ IdleUnpack
    /\ IdleParse
    /\ \E k \in 1..MaxOps : ops = LastOps(k)
    /\ evalCount = [i \in 1..Len(ops) |-> 0]
    /\ calls = 0
    /\ call = [method |-> "none"]

Forward ==
    /\ calls < MaxCalls
    /\ \E weights \in WeightVectors :
         LET out == MixedOp_forward(Len(ops), weights)
         IN  /\ call' = [method |-> "forward", weights |-> weights, index |-> 0,
                         out |-> out, before |-> evalCount]
             /\ evalCount' = Count(evalCount, out.evaluated)
    /\ calls' = calls + 1
    /\ UNCHANGED <<ops, unpackVars, parseVars, buildVars, codecVars, passVars>>

ForwardDART ==
    /\ calls < MaxCalls
    /\ \E weights \in WeightVectors :
         LET out == MixedOp_forwardDART(Len(ops), weights)
         IN  /\ call' = [method |-> "forwardDART", weights |-> weights, index |-> 0,
                         out |-> out, before |-> evalCount]
             /\ evalCount' = Count(evalCount, out.evaluated)
    /\ calls' = calls + 1
    /\ UNCHANGED <<ops, unpackVars, parseVars, buildVars, codecVars, passVars>>

ForwardGDAS ==
    /\ calls < MaxCalls
    /\ \E weights \in WeightVectors, index \in 0..(Len(ops) - 1) :
         LET out == MixedOp_forwardGDAS(Len(ops), weights, index)
         IN  /\ call' = [method |-> "forwardGDAS", weights |-> weights,
                         index |-> index, out |-> out, before |-> evalCount]
             /\ evalCount' = Count(evalCount, out.evaluated)
    /\ calls' = calls + 1
    /\ UNCHANGED <<ops, unpackVars, parseVars, buildVars, codecVars, passVars>>

NextMixed == Forward \/ ForwardDART \/ ForwardGDAS

SpecMixed == InitMixed /\ [][NextMixed]_vars

----------------------------------------------------------------------------
(* C2, C3, C4 *)

\* the last call was made with one weight per primitive
CallOf(method) == call.method = method /\ Len(call.weights) = Len(ops)

\* the primitives (0-based, ascending) whose weight satisfies P
Chosen(weights, P(_)) == SelectSeq(Range(Len(weights)), LAMBDA i : P(weights[i + 1]))

IsOneHot(weights) ==
    \E j \in 1..Len(weights) :
        /\ weights[j] = 2
        /\ \A i \in 1..Len(weights) : i # j => weights[i] = 0

\* evalCount is call.before with one more evaluation of each primitive in S
CountedOnce(S) ==
    \A i \in 1..Len(ops) :
        evalCount[i] = call.before[i] + (IF (i - 1) \in S THEN 1 ELSE 0)

SeqSet(q) == {q[i] : i \in 1..Len(q)}

\* C2: relaxed-eval with weights in [0,1] evaluates exactly the primitives of
\* non-zero weight, each once: weight 1 adds the output unscaled, a weight
\* strictly between 0 and 1 adds the output times the weight, weight 0 is not
\* evaluated; for a one-hot vector one primitive is evaluated and the result
\* is its output.
C2_RelaxedEval ==
    (/\ CallOf("forward")
     /\ \A i \in 1..Len(ops) : 0 <= call.weights[i] /\ call.weights[i] <= 2) =>
        /\ call.out.evaluated = Chosen(call.weights, LAMBDA v : v # 0)
        /\ CountedOnce({i \in 0..(Len(ops) - 1) : call.weights[i + 1] # 0})
        /\ \A i \in 1..Len(ops) :
              call.out.coef[i] = (IF call.weights[i] = 2 THEN 2 ELSE call.weights[i])
        /\ (IsOneHot(call.weights) =>
              /\ Len(call.out.evaluated) = 1
              /\ call.out.kind = "tensor"
              /\ \A i \in 1..Len(ops) :
                    call.out.coef[i] = (IF call.weights[i] = 2 THEN 2 ELSE 0))

\* a one-hot call on an edge of two primitives, after an earlier call
C2_Witness ==
    /\ CallOf("forward")
    /\ call.weights = <<0, 2>>
    /\ call.out.evaluated = <<1>>
    /\ call.before = <<1, 1>>
    /\ evalCount = <<1, 2>>

\* C3: hard-select-eval with an index in [0,K) evaluates the primitive at
\* that index and no other, returns its output times weights[index], and
\* leaves the evaluation counts of the other K-1 primitives as they were.
C3_HardSelect ==
    CallOf("forwardGDAS") =>
        /\ call.out.evaluated = <<call.index>>
        /\ call.out.kind = "tensor"
        /\ \A i \in 1..Len(ops) :
              /\ call.out.coef[i] =
                    (IF i = call.index + 1 THEN call.weights[i] ELSE 0)
              /\ (i # call.index + 1 => evalCount[i] = call.before[i])
              /\ (i = call.index + 1 => evalCount[i] = call.before[i] + 1)

\* primitive 1 is selected while primitive 0 has been evaluated before
C3_Witness ==
    /\ CallOf("forwardGDAS")
    /\ Len(ops) = 2
    /\ call.index = 1
    /\ call.before[1] = 1
    /\ evalCount[1] = 1
    /\ evalCount[2] = call.before[2] + 1

\* C4: soft-eval evaluates every primitive whatever the weights and returns
\* the sum of weight_i * primitive_i(x); with every weight strictly between
\* 0 and 1 relaxed-eval on the same weights evaluates the same primitives and
\* returns the same sum, and the two evaluate different primitives only when
\* some weight is 0 or lies outside (0,1].
C4_SoftEval ==
    CallOf("forwardDART") =>
        LET relaxed == MixedOp_forward(Len(ops), call.weights)
        IN  /\ call.out.evaluated = Range(Len(ops))
            /\ CountedOnce(0..(Len(ops) - 1))
            /\ call.out.kind = "tensor"
            /\ \A i \in 1..Len(ops) : call.out.coef[i] = call.weights[i]
            /\ ((\A i \in 1..Len(ops) : 0 < call.weights[i] /\ call.weights[i] < 2)
                  => /\ relaxed.evaluated = call.out.evaluated
                     /\ relaxed.coef = call.out.coef
                     /\ relaxed.kind = call.out.kind)
            /\ (relaxed.evaluated # call.out.evaluated
                  => \E i \in 1..Len(ops) :
                         call.weights[i] <= 0 \/ call.weights[i] > 2)

\* soft-eval evaluates a primitive of weight 0 that relaxed-eval skips
C4_Witness ==
    /\ CallOf("forwardDART")
    /\ call.weights = <<0, 1>>
    /\ call.out.evaluated = <<0, 1>>
    /\ MixedOp_forward(Len(ops), call.weights).evaluated = <<1>>
    /\ evalCount = <<1, 1>>

----------------------------------------------------------------------------
(* parse_from_numpy.  torch.topk does not say which of several equal values *)
(* it returns first: every order of equal values is a possible outcome.     *)

\* the scores of the weight groups: two values, so that ties and strict
\* orders both occur
ParseVals == {0, 1}

\* the largest element of a non-empty set of numbers
MaxOf(S) == CHOOSE m \in S : \A v \in S : v <= m

\* torch.topk(values, k) on a 1-d tensor: the outcomes, as sequences of k
\* 0-based indices, largest value first
TopK(values, k) ==
    {[a \in 1..k |-> q[a] - 1] : q \in
        {q \in [1..k -> 1..Len(values)] :
            /\ \A a, b \in 1..k : a # b => q[a] # q[b]
            /\ \A a, b \in 1..k : a < b => values[q[a]] >= values[q[b]]
            /\ \A r \in 1..Len(values) :
                  (\A a \in 1..k : q[a] # r) => values[r] <= values[q[k]]}}

\* the mutant: the last column ('none') takes part in the top-1
RowCandidates_all(row) == row

\* edges[:, :-1] of one row: every column but the last
RowCandidates(row) == SubSeq(row, 1, Len(row) - 1)

\* torch.topk(edges[:, :-1], 1): per row the largest value (edge_max) and
\* the outcomes for its 0-based column (primitive_indices)
EdgeMax(edges) ==
    [r \in 1..Len(edges) |->
        MaxOf({RowCandidates(edges[r])[c] : c \in 1..Len(RowCandidates(edges[r]))})]

\* the outcomes for the column of row r (0-based both)
PrimitiveIndex(edges, r) ==
    {c \in 0..(Len(RowCandidates(edges[r + 1])) - 1) :
        RowCandidates(edges[r + 1])[c + 1] = EdgeMax(edges)[r + 1]}

\* the body of the loop of parse_from_numpy for one group: the node genes
\* it can append; topk raises when asked for more than there is
ParseNode(edges, k, op_list) ==
    IF Len(RowCandidates(edges[1])) < 1 \/ Len(edges) < k
    THEN {[kind |-> "RuntimeError", node_gene |-> <<>>]}
    ELSE UNION {
           {[kind |-> "ok",
             node_gene |-> [a \in 1..k |-> <<op_list[prim[a] + 1], q[a]>>]] :
               prim \in {f \in [1..k -> 0..(Len(edges[1]) - 1)] :
                           \A a \in 1..k : f[a] \in PrimitiveIndex(edges, q[a])}} :
           q \in TopK(EdgeMax(edges), k)}

\* the loop over the groups: the genes parse_from_numpy can return
RECURSIVE ParseGroups(_, _, _)
ParseGroups(groups, k, op_list) ==
    IF groups = <<>> THEN {[kind |-> "ok", gene |-> <<>>]}
    ELSE LET heads == ParseNode(Head(groups), k, op_list)
             tails == ParseGroups(Tail(groups), k, op_list)
         IN  {IF h.kind # "ok" THEN [kind |-> h.kind, gene |-> <<>>]
              ELSE IF t.kind # "ok" THEN [kind |-> t.kind, gene |-> <<>>]
              ELSE [kind |-> "ok", gene |-> <<h.node_gene>> \o t.gene] :
                 h \in heads, t \in tails}

\* parse_from_numpy(alpha, k, basic_op_list)
parse_from_numpy(groups, k, op_list) ==
    IF op_list[Len(op_list)] # "none"
    THEN {[kind |-> "AssertionError", gene |-> <<>>]}
    ELSE ParseGroups(groups, k, op_list)

\* the vocabularies of the parse: two and three names ending in 'none', and
\* the first two names of GDAS_OP, which start with 'none'
ParseVocabularies ==
    {<<"dil_conv_5x5", "none">>,
     <<"dil_conv_3x3", "dil_conv_5x5", "none">>,
     <<"none", "skip_connect">>}

\* the group of one node: 2+i rows, one column per name
InitParse ==
    /\ IdlePass
    /\ IdleCodec
    /\ IdleBuild
    /\ IdleUnpack
    /\ IdleMixed
    /\ basic_op_list \in ParseVocabularies
    /\ \E rows \in 2..MaxRows :
         \E edges \in [1..rows -> [1..Len(basic_op_list) -> ParseVals]] :
            alpha = <<edges>>
    /\ parsed = [kind |-> "none"]

ParseFromNumpy ==
    /\ parsed.kind = "none"
    /\ parsed' \in parse_from_numpy(alpha, 2, basic_op_list)
    /\ UNCHANGED <<alpha, basic_op_list, unpackVars, mixedVars, buildVars, codecVars, passVars>>

NextParse == ParseFromNumpy

SpecParse == InitParse /\ [][NextParse]_vars

----------------------------------------------------------------------------
(* C5 *)

\* the best score of a row among the columns before the last
BestScore(row) == MaxOf({row[c] : c \in 1..(Len(row) - 1)})

\* C5: for a vocabulary ending in 'none' the parse returns per node two
\* (operation, predecessor) pairs: the predecessors are distinct rows of the
\* group, each operation is a highest-weight primitive of its row among the
\* columns before the last (so never 'none'), and no row left out has a best
\* score above that of a row taken.
C5_Discretize ==
    (parsed.kind # "none" /\ basic_op_list[Len(basic_op_list)] = "none") =>
        /\ parsed.kind = "ok"
        /\ Len(parsed.gene) = Len(alpha)
        /\ \A n \in 1..Len(alpha) :
              LET edges == alpha[n]
                  node_gene == parsed.gene[n]
                  taken == {node_gene[a][2] : a \in 1..Len(node_gene)}
              IN  /\ Len(node_gene) = 2
                  /\ node_gene[1][2] # node_gene[2][2]
                  /\ taken \subseteq 0..(Len(edges) - 1)
                  /\ \A a \in 1..2 :
                        /\ node_gene[a][1] # "none"
                        /\ \E c \in 1..(Len(basic_op_list) - 1) :
                              /\ basic_op_list[c] = node_gene[a][1]
                              /\ edges[node_gene[a][2] + 1][c]
                                    = BestScore(edges[node_gene[a][2] + 1])
                  /\ \A r \in (0..(Len(edges) - 1)) \ taken :
                        \A t \in taken :
                            BestScore(edges[r + 1]) <= BestScore(edges[t + 1])

\* three rows: the row whose largest weight sits on 'none' is left out, and
\* the rows taken get their best primitive
C5_Witness ==
    /\ basic_op_list = LastOps(3)
    /\ alpha = <<<< <<0, 1, 0>>, <<0, 0, 1>>, <<1, 0, 0>> >>>>
    /\ parsed.kind = "ok"
    /\ parsed.gene = << << <<"dil_conv_5x5", 0>>, <<"dil_conv_3x3", 2>> >> >>

----------------------------------------------------------------------------
(* DartsCell.__init__ and DartsCNN.__init__ *)

\* _MixedOp.__init__: the edge, with one primitive per name
MixedOp_init(C_i, C_o, stride, op_list) ==
    [C_in |-> C_i, C_out |-> C_o, stride |-> stride, n_ops |-> Len(op_list)]

\* the stride of the edge from predecessor j into a node
\* the mutant: every edge of a reduction cell downsamples
EdgeStride_every(reduction, j) == IF reduction THEN 2 ELSE 1

EdgeStride(reduction, j) == IF reduction /\ j < 2 THEN 2 ELSE 1

\* DartsCell.__init__
DartsCell_init(n, C_pp, C_p, C, reduction_p, reduction, op_list) ==
    [reduction |-> reduction,
     n_nodes |-> n,
     basic_op_list |-> op_list,
     C_pp |-> C_pp, C_p |-> C_p, C |-> C, reduction_p |-> reduction_p,
     preproc0 |-> IF reduction_p
                  THEN [op |-> "FactorizedReduce", C_in |-> C_pp, C_out |-> C]
                  ELSE [op |-> "StdConv", C_in |-> C_pp, C_out |-> C],
     preproc1 |-> [op |-> "StdConv", C_in |-> C_p, C_out |-> C],
     dag |-> [i \in 1..n |->
                [j \in 1..(i + 1) |->
                    MixedOp_init(C, C, EdgeStride(reduction, j - 1), op_list)]]]

\* the mutant: the second position is 2 * (n_layers // 3)
ReductionLayers_early(n_layers) == {n_layers \div 3, 2 * (n_layers \div 3)}

\* [n_layers // 3, 2 * n_layers // 3]
ReductionLayers(n_layers) == {n_layers \div 3, (2 * n_layers) \div 3}

\* the constructor up to the loop over the layers
BuildStart(a) ==
    [pc |-> "cells",
     basic_op_list |-> IF Len(a.basic_op_list) = 0 THEN DARTS_OP ELSE a.basic_op_list,
     stem_out |-> stem_multiplier * a.C,
     i |-> 0,
     C_pp |-> stem_multiplier * a.C,
     C_p |-> stem_multiplier * a.C,
     C_cur |-> a.C,
     reduction_p |-> FALSE,
     cells |-> <<>>]

\* one iteration of the loop over the layers
BuildLayer(a, b) ==
    LET reduction == b.i \in ReductionLayers(a.n_layers)
        C_cur == IF reduction THEN b.C_cur * 2 ELSE b.C_cur
        cell == DartsCell_init(a.n_nodes, b.C_pp, b.C_p, C_cur,
                               b.reduction_p, reduction, b.basic_op_list)
    IN  [b EXCEPT !.i = b.i + 1,
                  !.C_cur = C_cur,
                  !.reduction_p = reduction,
                  !.cells = Append(b.cells, cell),
                  !.C_pp = b.C_p,
                  !.C_p = C_cur * a.n_nodes]

\* the constructor after the loop: the classifier and the edge counts
BuildEnd(a, b) ==
    [cls |-> a.cls,
     C_in |-> C_in, C |-> a.C, n_classes |-> a.n_classes,
     n_layers |-> a.n_layers, n_nodes |-> a.n_nodes,
     basic_op_list |-> b.basic_op_list,
     stem_out |-> b.stem_out,
     cells |-> b.cells,
     linear |-> [C_in |-> b.C_p, C_out |-> a.n_classes],
     num_edges |-> NumEdges(a.n_nodes),
     num_ops |-> Len(b.basic_op_list),
     all_edges |-> 2 * NumEdges(a.n_nodes)]

RECURSIVE BuildLayers(_, _)
BuildLayers(a, b) ==
    IF b.i >= a.n_layers THEN b ELSE BuildLayers(a, BuildLayer(a, b))

\* DartsCNN(C, n_classes, n_layers, n_nodes, basic_op_list)
DartsCNN_init(C, n_classes, n_layers, nodes, op_list) ==
    LET a == [cls |-> "DartsCNN", C |-> C, n_classes |-> n_classes,
              n_layers |-> n_layers, n_nodes |-> nodes, basic_op_list |-> op_list]
    IN  BuildEnd(a, BuildLayers(a, BuildStart(a)))

\* the base widths and vocabularies a network is built with
BaseWidths == {8, 16}

BuildVocabularies ==
    {<<>>, <<"skip_connect", "none">>, <<"conv_3x3", "none">>}

\* the names of a vocabulary that are no key of OPS_
UnknownNames(op_list) == {op_list[i] : i \in 1..Len(op_list)} \ OPS_

InitBuild ==
    /\ IdlePass
    /\ IdleCodec
    /\ IdleUnpack
    /\ IdleMixed
    /\ IdleParse
    /\ \E C \in BaseWidths, L \in 0..MaxLayers, n \in 1..MaxCellNodes,
          op_list \in BuildVocabularies :
         args = [cls |-> "DartsCNN", C |-> C, n_classes |-> 10, n_layers |-> L,
                 n_nodes |-> n, basic_op_list |-> op_list]
    /\ build = [pc |-> "none"]
    /\ net = [cls |-> "none"]

ConstructorStart ==
    /\ build.pc = "none"
    /\ net.cls = "none"
    /\ build' = BuildStart(args)
    /\ UNCHANGED <<args, net, unpackVars, mixedVars, parseVars, codecVars, passVars>>

ConstructorLayer ==
    /\ build.pc = "cells"
    /\ build.i < args.n_layers
    /\ args.n_nodes = 0 \/ UnknownNames(build.basic_op_list) = {}
    /\ build' = BuildLayer(args, build)
    /\ UNCHANGED <<args, net, unpackVars, mixedVars, parseVars, codecVars, passVars>>

\* OPS_[primitive] in _MixedOp.__init__ raises KeyError: no network is built
ConstructorRaise ==
    /\ build.pc = "cells"
    /\ build.i < args.n_layers
    /\ args.n_nodes > 0
    /\ UnknownNames(build.basic_op_list) # {}
    /\ build' = [pc |-> "raised", what |-> "KeyError"]
    /\ UNCHANGED <<args, net, unpackVars, mixedVars, parseVars, codecVars, passVars>>

ConstructorEnd ==
    /\ build.pc = "cells"
    /\ build.i >= args.n_layers
    /\ net' = BuildEnd(args, build)
    /\ build' = [pc |-> "done"]
    /\ UNCHANGED <<args, unpackVars, mixedVars, parseVars, codecVars, passVars>>

NextBuild ==
    ConstructorStart \/ ConstructorLayer \/ ConstructorRaise \/ ConstructorEnd

SpecBuild == InitBuild /\ [][NextBuild]_vars

----------------------------------------------------------------------------
(* C8 *)

\* 2^n
RECURSIVE Pow2(_)
Pow2(n) == IF n = 0 THEN 1 ELSE 2 * Pow2(n - 1)

\* the cells built so far
BuiltCells == IF net.cls # "none" THEN net.cells
              ELSE IF build.pc = "cells" THEN build.cells ELSE <<>>

\* C8: cell i is a reduction cell iff i is L//3 or (2*L)//3, and its width
\* is C * 2^(number of those positions <= i): the width doubles at those
\* positions and nowhere else.
C8_ReductionPositions ==
    \A i \in 0..(Len(BuiltCells) - 1) :
        LET L == args.n_layers
            positions == {L \div 3, (2 * L) \div 3}
        IN  /\ BuiltCells[i + 1].reduction <=> i \in positions
            /\ BuiltCells[i + 1].C
                  = args.C * Pow2(Cardinality({p \in positions : p <= i}))
            /\ (i > 0 /\ i \notin positions
                  => BuiltCells[i + 1].C = BuiltCells[i].C)
            /\ (i > 0 /\ i \in positions
                  => BuiltCells[i + 1].C = 2 * BuiltCells[i].C)

\* 8 layers of base width 16: the width doubles at cells 2 and 5 only
C8_Witness ==
    /\ net.cls = "DartsCNN"
    /\ args.n_layers = 8
    /\ args.C = 16
    /\ [i \in 1..8 |-> net.cells[i].C] = <<16, 16, 32, 32, 32, 64, 64, 64>>
    /\ {i \in 0..7 : net.cells[i + 1].reduction} = {2, 5}

----------------------------------------------------------------------------
(* C11 *)

\* C11: a constructor called with an empty vocabulary never produces a
\* network (it raises); no network with a substituted vocabulary exists.
C11_EmptyVocabularyRejected ==
    (args.cls # "none" /\ Len(args.basic_op_list) = 0) => net.cls = "none"

----------------------------------------------------------------------------
(* DartsCNN.genotype_to_onehot_sample and DartsCNN.genotype.  A genotype is  *)
(* <<normal, normal_concat, reduce, reduce_concat>>; a gene is one list per *)
(* node of <<operation name, predecessor>> pairs.                           *)

\* list.index(name): the first position (0-based) of the name, -1 for the
\* ValueError of a name that is not there
ListIndex(list, name) ==
    IF \E c \in 1..Len(list) : list[c] = name
    THEN (CHOOSE c \in 1..Len(list) :
             list[c] = name /\ \A d \in 1..(c - 1) : list[d] # name) - 1
    ELSE -1

\* num_select = list(range(2, 2 + n_nodes))
NumSelect(n) == [k \in 1..n |-> k + 1]

\* the row of the pair (op_name, op_id) of node i of gene j
TrueId(nw, j, i, op_id) ==
    IF i = 0 THEN op_id + j * nw.num_edges
    ELSE IF i = 1 THEN op_id + NumSelect(nw.n_nodes)[1] + j * nw.num_edges
    ELSE op_id + SumSeq(PySlice(NumSelect(nw.n_nodes), 0, i)) + j * nw.num_edges

\* the (row, column) entries the first loop sets to 1
GeneEntries(nw, gt) ==
    {<<TrueId(nw, j, i, gt[2 * j + 1][i + 1][o][2]),
       ListIndex(nw.basic_op_list, gt[2 * j + 1][i + 1][o][1])>> :
        <<j, i, o>> \in {t \in (0..1) \X (0..(nw.n_nodes - 1)) \X (1..2) :
                     /\ t[2] < Len(gt[2 * t[1] + 1])
                     /\ t[3] <= Len(gt[2 * t[1] + 1][t[2] + 1])}}

\* the column an empty row gets its 1 in: sample[i, 7] = 1
EmptyRowColumn(nw) == NoneColumn

\* genotype_to_onehot_sample(genotype)
genotype_to_onehot_sample(nw, gt) ==
    LET entries == GeneEntries(nw, gt)
        filled == {e[1] : e \in entries}
    IN  IF \E e \in entries : e[2] < 0
        THEN [kind |-> "ValueError", rows |-> <<>>]
        ELSE IF \E e \in entries : e[1] >= nw.all_edges
        THEN [kind |-> "IndexError", rows |-> <<>>]
        ELSE IF filled # 0..(nw.all_edges - 1) /\ EmptyRowColumn(nw) >= nw.num_ops
        THEN [kind |-> "IndexError", rows |-> <<>>]
        ELSE [kind |-> "ok",
              rows |-> [r \in 1..nw.all_edges |->
                          [c \in 1..nw.num_ops |->
                              IF <<r - 1, c - 1>> \in entries THEN 1
                              ELSE IF (r - 1) \notin filled /\ c - 1 = EmptyRowColumn(nw)
                              THEN 1 ELSE 0]]]

\* DartsCNN.genotype(theta): the genotypes it can return
DartsCNN_genotype(nw, theta) ==
    LET theta_norm == darts_weight_unpack(PySlice(theta, 0, nw.num_edges),
                                          nw.n_nodes, InputNodes)
        theta_reduce == darts_weight_unpack(PySlice(theta, nw.num_edges, Len(theta)),
                                            nw.n_nodes, InputNodes)
        concat == [k \in 1..nw.n_nodes |-> k + 1]
    IN  {IF gn.kind # "ok" THEN [kind |-> gn.kind, genotype |-> <<>>]
         ELSE IF gr.kind # "ok" THEN [kind |-> gr.kind, genotype |-> <<>>]
         ELSE [kind |-> "ok", genotype |-> <<gn.gene, concat, gr.gene, concat>>] :
            gn \in parse_from_numpy(theta_norm, TopEdges, nw.basic_op_list),
            gr \in parse_from_numpy(theta_reduce, TopEdges, nw.basic_op_list)}

\* the vocabularies of the codec: the fallback of DartsCNN, GDAS_OP, nine
\* names ending in 'none', three names ending in 'none'
NINE_OP ==
    <<"max_pool_3x3", "avg_pool_3x3", "skip_connect", "sep_conv_3x3",
      "sep_conv_5x5", "sep_conv_7x7", "dil_conv_3x3", "dil_conv_5x5", "none">>

CodecVocabularies == {DARTS_OP, GDAS_OP, NINE_OP, LastOps(3)}

\* the names of the two pairs of a node: the first name of the vocabulary
\* that is not 'none', and one of the first MaxGeneOps such names
GeneOps(op_list) ==
    LET named == SelectSeq(op_list, LAMBDA o : o # "none")
    IN  {<<named[1], named[c]>> : c \in 1..Min(MaxGeneOps, Len(named))}

\* the genes of node i: two distinct predecessors, ascending, and their names
NodeGenes(i, op_list) ==
    {<< <<oo[1], pp[1]>>, <<oo[2], pp[2]>> >> :
        pp \in {pp \in (0..(i + 1)) \X (0..(i + 1)) : pp[1] < pp[2]},
        oo \in GeneOps(op_list)}

Genes(n, op_list) ==
    {gene \in [1..n -> UNION {NodeGenes(i, op_list) : i \in 0..(n - 1)}] :
        \A i \in 1..n : gene[i] \in NodeGenes(i - 1, op_list)}

InitCodec ==
    /\ IdlePass
    /\ IdleUnpack
    /\ IdleMixed
    /\ IdleParse
    /\ \E n \in 1..MaxCellNodes, op_list \in CodecVocabularies :
         /\ args = [cls |-> "DartsCNN", C |-> 16, n_classes |-> 10, n_layers |-> 1,
                    n_nodes |-> n, basic_op_list |-> op_list]
         /\ net = DartsCNN_init(16, 10, 1, n, op_list)
         /\ \E normal \in Genes(n, op_list), reduce \in Genes(n, op_list) :
               genotype = <<normal, [k \in 1..n |-> k + 1],
                            reduce, [k \in 1..n |-> k + 1]>>
    /\ build = [pc |-> "done"]
    /\ sample = [kind |-> "none"]
    /\ decoded = [kind |-> "none"]
    /\ resample = [kind |-> "none"]

Encode ==
    /\ sample.kind = "none"
    /\ sample' = genotype_to_onehot_sample(net, genotype)
    /\ UNCHANGED <<genotype, decoded, resample, unpackVars, mixedVars, parseVars, buildVars, passVars>>

Genotype ==
    /\ sample.kind = "ok"
    /\ decoded.kind = "none"
    /\ decoded' \in DartsCNN_genotype(net, sample.rows)
    /\ UNCHANGED <<genotype, sample, resample, unpackVars, mixedVars, parseVars, buildVars, passVars>>

EncodeAgain ==
    /\ decoded.kind = "ok"
    /\ resample.kind = "none"
    /\ resample' = genotype_to_onehot_sample(net, decoded.genotype)
    /\ UNCHANGED <<genotype, sample, decoded, unpackVars, mixedVars, parseVars, buildVars, passVars>>

NextCodec == Encode \/ Genotype \/ EncodeAgain

SpecCodec == InitCodec /\ [][NextCodec]_vars

----------------------------------------------------------------------------
(* C6, C7 *)

\* the pairs of node i (0-based) of cell kind j (0 normal, 1 reduce)
Pairs(gt, j, i) == {gt[2 * j + 1][i + 1][o] : o \in 1..Len(gt[2 * j + 1][i + 1])}

\* the flat row of predecessor p of node i of cell kind j
FlatRow(j, i, p) == j * net.num_edges + GroupStart(i) + p

\* the rows some node of the genotype selects
SelectedRows(gt) ==
    {FlatRow(j, i, pr[2]) : <<j, i, pr>> \in
        {t \in (0..1) \X (0..(net.n_nodes - 1))
                \X UNION {Pairs(gt, j, i) : j \in 0..1, i \in 0..(net.n_nodes - 1)} :
            t[3] \in Pairs(gt, t[1], t[2])}}

\* the row holds a single 1, in the column of the name
OneHotAt(row, name) ==
    \A c \in 1..Len(row) :
        row[c] = (IF net.basic_op_list[c] = name THEN 1 ELSE 0)

\* C6: the round trip on a genotype of two distinct predecessors and
\* non-'none' operations per node: genotype(encode(g)) has the pairs of g
\* at every node of both cell kinds, encoding that result gives the same
\* one-hot tensor, and the rows of edges not selected carry only 'none'.
C6_RoundTrip ==
    net.basic_op_list[Len(net.basic_op_list)] = "none" =>
        /\ (sample.kind # "none" =>
              /\ sample.kind = "ok"
              /\ \A r \in (0..(net.all_edges - 1)) \ SelectedRows(genotype) :
                    OneHotAt(sample.rows[r + 1], "none"))
        /\ (decoded.kind # "none" =>
              /\ decoded.kind = "ok"
              /\ \A j \in 0..1, i \in 0..(net.n_nodes - 1) :
                    Pairs(decoded.genotype, j, i) = Pairs(genotype, j, i))
        /\ (resample.kind # "none" => resample = sample)

\* C7: the encoding sets, for every selected pair (primitive, p) of node i
\* of cell kind j, the entry at row j*num_edges + sum_{m<i}(2+m) + p and the
\* column of the primitive to 1, and gives every row no node selects its
\* single 1 in the column of 'none' of the network's vocabulary, whatever
\* the size and order of the vocabulary.
C7_EncodeRows ==
    sample.kind # "none" =>
        /\ sample.kind = "ok"
        /\ \A j \in 0..1, i \in 0..(net.n_nodes - 1) :
              \A pr \in Pairs(genotype, j, i) :
                  \E c \in 1..Len(net.basic_op_list) :
                      /\ net.basic_op_list[c] = pr[1]
                      /\ sample.rows[FlatRow(j, i, pr[2]) + 1][c] = 1
        /\ \A r \in (0..(net.all_edges - 1)) \ SelectedRows(genotype) :
              OneHotAt(sample.rows[r + 1], "none")

----------------------------------------------------------------------------
(* The values of a forward pass.  A tensor is its shape, (B, C, H, W) for a *)
(* feature map and () for a 0-d tensor; a Python number is the int 0 that   *)
(* sum() starts from; an exception is its name.                             *)

Tensor(shape) == [kind |-> "tensor", shape |-> shape]

Number == [kind |-> "number", shape |-> <<>>]

Raise(name) == [kind |-> name, shape |-> <<>>]

NoValue == [kind |-> "none", shape |-> <<>>]

IsRaised(v) == v.kind \notin {"tensor", "number", "none"}

Is4D(v) == v.kind = "tensor" /\ Len(v.shape) = 4

\* what a torch module raises on an input it cannot take
BadInput(v) ==
    IF IsRaised(v) THEN v
    ELSE IF v.kind = "number" THEN Raise("TypeError") ELSE Raise("RuntimeError")

\* a + b, with broadcasting of a 0-d tensor
Plus(a, b) ==
    IF IsRaised(a) THEN a
    ELSE IF IsRaised(b) THEN b
    ELSE IF a.kind = "number" THEN b
    ELSE IF b.kind = "number" THEN a
    ELSE IF a.shape = <<>> THEN b
    ELSE IF b.shape = <<>> THEN a
    ELSE IF a.shape = b.shape THEN a
    ELSE Raise("RuntimeError")

\* sum(terms): the terms are evaluated in order and added to the int 0
RECURSIVE SumValues(_, _)
SumValues(terms, acc) ==
    IF terms = <<>> \/ IsRaised(acc) THEN acc
    ELSE SumValues(Tail(terms), Plus(acc, Head(terms)))

\* w * v for an element w of a weight tensor: a 0-d tensor times v
Times(v) ==
    IF IsRaised(v) THEN v
    ELSE IF v.kind = "number" THEN Tensor(<<>>)
    ELSE v

\* nn.Conv2d(C_i, C_o, (kh, kw), stride, padding, dilation)
Conv2d(v, C_i, C_o, kh, kw, stride, padding, dilation) ==
    IF ~Is4D(v) THEN BadInput(v)
    ELSE LET h == v.shape[3] + 2 * padding - dilation * (kh - 1) - 1
             w == v.shape[4] + 2 * padding - dilation * (kw - 1) - 1
         IN  IF v.shape[2] # C_i \/ h < 0 \/ w < 0 THEN Raise("RuntimeError")
             ELSE Tensor(<<v.shape[1], C_o, h \div stride + 1, w \div stride + 1>>)

\* nn.BatchNorm2d(C)
BatchNorm2d(v, C) ==
    IF ~Is4D(v) THEN BadInput(v)
    ELSE IF v.shape[2] # C THEN Raise("RuntimeError")
    ELSE v

\* nn.MaxPool2d / nn.AvgPool2d(kernel_size, stride, padding)
Pool2d(v, kernel_size, stride, padding) ==
    IF ~Is4D(v) THEN BadInput(v)
    ELSE LET h == v.shape[3] + 2 * padding - kernel_size
             w == v.shape[4] + 2 * padding - kernel_size
         IN  IF h < 0 \/ w < 0 THEN Raise("RuntimeError")
             ELSE Tensor(<<v.shape[1], v.shape[2], h \div stride + 1, w \div stride + 1>>)

\* torch.cat(values, 1)
RECURSIVE Cat(_, _)
Cat(values, acc) ==
    IF values = <<>> THEN acc
    ELSE LET v == Head(values)
         IN  IF ~Is4D(v) THEN BadInput(v)
             ELSE IF acc.kind = "none" THEN Cat(Tail(values), v)
             ELSE IF <<v.shape[1], v.shape[3], v.shape[4]>>
                       # <<acc.shape[1], acc.shape[3], acc.shape[4]>>
             THEN Raise("RuntimeError")
             ELSE Cat(Tail(values),
                      Tensor(<<acc.shape[1], acc.shape[2] + v.shape[2],
                               acc.shape[3], acc.shape[4]>>))

PoolBN(v, C, kernel_size, stride, padding) ==
    BatchNorm2d(Pool2d(v, kernel_size, stride, padding), C)

StdConv(v, C_i, C_o, kernel_size, stride, padding) ==
    BatchNorm2d(Conv2d(v, C_i, C_o, kernel_size, kernel_size, stride, padding, 1), C_o)

ReLUConvBN(v, C_i, C_o, kernel_size, stride, padding) ==
    BatchNorm2d(Conv2d(v, C_i, C_o, kernel_size, kernel_size, stride, padding, 1), C_o)

FacConv(v, C_i, C_o, kernel_length, stride, padding) ==
    BatchNorm2d(Conv2d(Conv2d(v, C_i, C_i, kernel_length, 1, stride, padding, 1),
                       C_i, C_o, 1, kernel_length, stride, padding, 1), C_o)

DilConv(v, C_i, C_o, kernel_size, stride, padding, dilation) ==
    BatchNorm2d(Conv2d(Conv2d(v, C_i, C_i, kernel_size, kernel_size, stride,
                              padding, dilation),
                       C_i, C_o, 1, 1, 1, 0, 1), C_o)

SepConv(v, C_i, C_o, kernel_size, stride, padding) ==
    DilConv(DilConv(v, C_i, C_i, kernel_size, stride, padding, 1),
            C_i, C_o, kernel_size, 1, padding, 1)

Identity(v) == v

\* x * 0. for stride 1, x[:, :, ::stride, ::stride] * 0. otherwise
Zero(v, stride) ==
    IF IsRaised(v) THEN v
    ELSE IF stride = 1 THEN v
    ELSE IF v.kind = "number" THEN Raise("TypeError")
    ELSE IF ~Is4D(v) THEN Raise("IndexError")
    ELSE Tensor(<<v.shape[1], v.shape[2],
                  (v.shape[3] + stride - 1) \div stride,
                  (v.shape[4] + stride - 1) \div stride>>)

\* x[:, :, 1:, 1:]
Shifted(v) ==
    Tensor(<<v.shape[1], v.shape[2], Max(v.shape[3] - 1, 0), Max(v.shape[4] - 1, 0)>>)

\* cat of conv1(x) and conv2(x[:, :, 1:, 1:]), then bn
FactorizedReduce(v, C_i, C_o) ==
    IF ~Is4D(v) THEN BadInput(v)
    ELSE BatchNorm2d(Cat(<<Conv2d(v, C_i, C_o \div 2, 1, 1, 2, 0, 1),
                           Conv2d(Shifted(v), C_i, C_o \div 2, 1, 1, 2, 0, 1)>>,
                         NoValue), C_o)

\* OPS_[name](C_in, C_out, stride, affine)(v)
Primitive(name, C_i, C_o, stride, v) ==
    CASE name = "none" -> Zero(v, stride)
      [] name = "avg_pool_3x3" -> PoolBN(v, C_i, 3, stride, 1)
      [] name = "max_pool_3x3" -> PoolBN(v, C_i, 3, stride, 1)
      [] name = "skip_connect" -> IF stride = 1 THEN Identity(v)
                                  ELSE FactorizedReduce(v, C_i, C_o)
      [] name = "sep_conv_3x3" -> SepConv(v, C_i, C_o, 3, stride, 1)
      [] name = "sep_conv_5x5" -> SepConv(v, C_i, C_o, 5, stride, 2)
      [] name = "sep_conv_7x7" -> SepConv(v, C_i, C_o, 7, stride, 3)
      [] name = "dil_conv_3x3" -> DilConv(v, C_i, C_o, 3, stride, 2, 2)
      [] name = "dil_conv_5x5" -> DilConv(v, C_i, C_o, 5, stride, 4, 2)
      [] name = "conv_7x1_1x7" -> FacConv(v, C_i, C_o, 7, stride, 3)
      [] name = "nor_conv_3x3" -> ReLUConvBN(v, C_i, C_o, 3, stride, 1)
      [] name = "nor_conv_1x1" -> ReLUConvBN(v, C_i, C_o, 1, stride, 0)

----------------------------------------------------------------------------
(* The forward pass of an edge and of a cell.  A row of a weight tensor is  *)
(* [sel, pos, w]: the weights w, and where the row comes from (row pos of   *)
(* the tensor a caller handed in, sel = 0, or of the tensors that call sel  *)
(* of get_gumbel_prob returned).                                            *)

\* what is appended to _x: op(x) for a weight of 1, value * op(x) otherwise
MixedOp_term(value, out) == IF IsOne(value) THEN out ELSE Times(out)

\* sum(_x), for r what _MixedOp.forward evaluates
MixedOp_sum(edge, names, v, weights, r) ==
    IF r.kind = "AssertionError" THEN Raise("AssertionError")
    ELSE SumValues([t \in 1..Len(r.evaluated) |->
                      MixedOp_term(weights[r.evaluated[t] + 1],
                                   Primitive(names[r.evaluated[t] + 1], edge.C_in,
                                             edge.C_out, edge.stride, v))],
                   Number)

\* _MixedOp.forward(x, weights) on the value v
MixedOp_forward_value(edge, names, v, weights) ==
    MixedOp_sum(edge, names, v, weights, MixedOp_forward(edge.n_ops, weights))

\* _MixedOp.forwardGDAS(x, weights, index) on the value v
MixedOp_forwardGDAS_value(edge, names, v, weights, index) ==
    IF edge.n_ops # Len(weights) THEN Raise("AssertionError")
    ELSE IF index < 0 \/ index >= edge.n_ops THEN Raise("IndexError")
    ELSE Times(Primitive(names[index + 1], edge.C_in, edge.C_out, edge.stride, v))

\* s_cur of one node: the sum over enumerate(zip(states, w_list[, i_list]))
NodeValue(cell, method, edges, states, w_list, i_list) ==
    IF method = "forward"
    THEN SumValues([j \in 1..Min(Len(states), Len(w_list)) |->
                       MixedOp_forward_value(edges[j], cell.basic_op_list,
                                             states[j], w_list[j].w)], Number)
    ELSE SumValues([j \in 1..Min(Len(states), Min(Len(w_list), Len(i_list))) |->
                       MixedOp_forwardGDAS_value(edges[j], cell.basic_op_list,
                                                 states[j], w_list[j].w, i_list[j].i)],
                   Number)

RECURSIVE DartsCell_loop(_, _, _, _, _, _)

\* states.append(s_cur) and the next iteration; <<e>> when s_cur is e raised
DartsCell_append(cell, method, wdag, idag, i, states, s_cur) ==
    IF IsRaised(s_cur) THEN <<s_cur>>
    ELSE DartsCell_loop(cell, method, wdag, idag, i + 1, Append(states, s_cur))

\* the loop over zip(self.dag, w_dag[, i_dag])
DartsCell_loop(cell, method, wdag, idag, i, states) ==
    IF i >= Len(cell.dag) \/ i >= Len(wdag)
       \/ (method = "forwardGDAS" /\ i >= Len(idag))
    THEN states
    ELSE DartsCell_append(cell, method, wdag, idag, i, states,
             NodeValue(cell, method, cell.dag[i + 1], states, wdag[i + 1],
                       IF method = "forwardGDAS" THEN idag[i + 1] ELSE <<>>))

\* self.preproc0 / self.preproc1
Preproc(p, v) ==
    IF p.op = "FactorizedReduce" THEN FactorizedReduce(v, p.C_in, p.C_out)
    ELSE StdConv(v, p.C_in, p.C_out, 1, 1, 0)

\* torch.cat(states[2:], 1)
DartsCell_cat(states) ==
    IF Len(states) = 1 THEN states[1]
    ELSE IF Len(states) = 2 THEN Raise("RuntimeError")
    ELSE Cat(SubSeq(states, 3, Len(states)), NoValue)

\* the body of both forward methods, from the preprocessed inputs on
DartsCell_body(cell, method, p0, p1, wdag, idag) ==
    IF IsRaised(p0) THEN p0
    ELSE IF IsRaised(p1) THEN p1
    ELSE DartsCell_cat(DartsCell_loop(cell, method, wdag, idag, 0, <<p0, p1>>))

DartsCell_run(cell, method, s0, s1, wdag, idag) ==
    DartsCell_body(cell, method, Preproc(cell.preproc0, s0),
                   Preproc(cell.preproc1, s1), wdag, idag)

\* DartsCell.forward(s0, s1, sample)
DartsCell_forward(cell, s0, s1, weights) ==
    DartsCell_run(cell, "forward", s0, s1,
                  darts_weight_unpack(weights, cell.n_nodes, InputNodes), <<>>)

\* DartsCell.forwardGDAS(s0, s1, sample, indexs)
DartsCell_forwardGDAS(cell, s0, s1, weights, indexs) ==
    DartsCell_run(cell, "forwardGDAS", s0, s1,
                  darts_weight_unpack(weights, cell.n_nodes, InputNodes),
                  gdas_indexes_unpack(indexs, cell.n_nodes, InputNodes))

\* self.stem(x)
Stem(nw, v) ==
    BatchNorm2d(Conv2d(v, nw.C_in, nw.stem_out, 3, 3, 1, 1, 1), nw.stem_out)

\* self.linear(self.gap(s1).view(B, -1))
Classifier(nw, v) ==
    IF ~Is4D(v) THEN BadInput(v)
    ELSE IF v.shape[2] # nw.linear.C_in THEN Raise("RuntimeError")
    ELSE Tensor(<<v.shape[1], nw.linear.C_out>>)

\* the mutant: every cell is handed the first num_edges rows
CellWeights_first(nw, cell, rows) == PySlice(rows, 0, nw.num_edges)

\* sample[self.num_edges:] if cell.reduction else sample[0:self.num_edges]
CellWeights(nw, cell, rows) ==
    IF cell.reduction THEN PySlice(rows, nw.num_edges, Len(rows))
    ELSE PySlice(rows, 0, nw.num_edges)

\* where the rows of a tensor come from
Provenance(rows) == [r \in 1..Len(rows) |-> <<rows[r].sel, rows[r].pos>>]

----------------------------------------------------------------------------
(* get_gumbel_prob.  The noise of an attempt is 0 everywhere but at one     *)
(* column of each row, where it exceeds every difference of two logits, and *)
(* it may hold an infinity.                                                 *)

\* the noise at its large entries, in the unit of the weights
Spread == 1 + MaxOf(WeightVals) + MaxOf({-v : v \in WeightVals})

NoisePatterns == {"first", "cycle"}

\* gumbels = -torch.empty_like(xins).exponential_().log()
Gumbels(xins, pattern, inf) ==
    [inf |-> inf,
     g |-> [r \in 1..Len(xins) |->
              [c \in 1..Len(xins[r].w) |->
                  IF c - 1 = (IF pattern = "first" THEN 0
                              ELSE (r - 1) % Len(xins[r].w))
                  THEN Spread ELSE 0]]]

\* probs.max(-1, keepdim=True)[1] for one row of probs
ArgMax(row) ==
    (CHOOSE c \in 1..Len(row) :
        /\ \A d \in 1..Len(row) : row[d] <= row[c]
        /\ \A d \in 1..(c - 1) : row[d] < row[c]) - 1

\* probs up to its order within a row: (log_softmax(xins) + gumbels) / tau
\* is ordered as xins + gumbels when tau > 0 and the other way when tau < 0
Probs(xins, gumbels, temperature) ==
    [r \in 1..Len(xins) |->
        [c \in 1..Len(xins[r].w) |->
            IF temperature >= 0 THEN xins[r].w[c] + gumbels.g[r][c]
            ELSE -(xins[r].w[c] + gumbels.g[r][c])]]

\* isinf(gumbels).any() or isinf(probs).any() or isnan(probs).any(): an
\* infinite noise or a division by tau = 0 makes probs NaN
Degenerate(gumbels, temperature) == gumbels.inf \/ temperature = 0

\* index = probs.max(-1, keepdim=True)[1]
\* one_h = torch.zeros_like(logits).scatter_(-1, index, 1.0)
\* hardwts = one_h - probs.detach() + probs, which is one_h in value
Scatter(probs, index, sel) ==
    [index |-> [r \in 1..Len(probs) |->
                  [sel |-> sel, pos |-> r - 1, i |-> index[r]]],
     hardwts |-> [r \in 1..Len(probs) |->
                    [sel |-> sel, pos |-> r - 1,
                     w |-> [c \in 1..Len(probs[r]) |->
                               IF c - 1 = index[r] THEN 2 ELSE 0]]]]

Selection(probs, sel) ==
    CHOOSE s \in {Scatter(probs, index, sel) :
                     index \in {[r \in 1..Len(probs) |-> ArgMax(probs[r])]}} :
        TRUE

\* the outcome of one iteration, probs being computed once
Attempt(degenerate, probs, sel) ==
    CHOOSE a \in {[degenerate |-> degenerate,
                    index |-> s.index, hardwts |-> s.hardwts] :
                     s \in {Selection(probs, sel)}} : TRUE

\* the mutant: the attempt is returned whatever the noise is
GumbelAttempt_unguarded(xins, gumbels, temperature, sel) ==
    CHOOSE a \in {Attempt(FALSE, probs, sel) :
                     probs \in {Probs(xins, gumbels, temperature)}} : TRUE

\* one iteration of the while loop
GumbelAttempt(xins, gumbels, temperature, sel) ==
    CHOOSE a \in {Attempt(Degenerate(gumbels, temperature), probs, sel) :
                     probs \in {Probs(xins, gumbels, temperature)}} : TRUE

----------------------------------------------------------------------------
(* DartsCNN.forward and GDAS.forwardGDAS, one step at a time *)

\* GDAS.__init__: super().__init__(C=16, n_classes=10, n_layers=8,
\* n_nodes=4, basic_op_list=[]), whatever the arguments are
GDAS_init(a) ==
    LET b == [cls |-> "GDAS", C |-> 16, n_classes |-> 10, n_layers |-> 8,
              n_nodes |-> 4, basic_op_list |-> <<>>]
    IN  BuildEnd(b, BuildLayers(b, BuildStart(b)))

\* the networks a pass runs on: small ones, and the repository's defaults
NetConfigs ==
    {[cls |-> "DartsCNN", C |-> 16, n_classes |-> 10, n_layers |-> L,
      n_nodes |-> n, basic_op_list |-> op_list, tau |-> 0] :
        L \in 0..MaxNetLayers, n \in 1..MaxCellNodes,
        op_list \in {<<>>, <<"dil_conv_5x5", "none">>,
                     <<"conv_7x1_1x7", "none">>}}
    \cup {[cls |-> c, C |-> 16, n_classes |-> 10, n_layers |-> 8,
           n_nodes |-> 4, basic_op_list |-> <<>>, tau |-> 10] :
            c \in {"DartsCNN", "GDAS"}}
    \cup {[cls |-> "GDAS", C |-> 8, n_classes |-> 10, n_layers |-> 2,
           n_nodes |-> 2, basic_op_list |-> <<"dil_conv_5x5", "none">>,
           tau |-> 10]}

\* the batch sizes of the repository test
Batches == {2, 4}

\* the rows of an architecture tensor: one-hot, all 0.5, all -0.5
ArchRows(K) ==
    {[c \in 1..K |-> IF c = 1 THEN 2 ELSE 0],
     [c \in 1..K |-> 1],
     [c \in 1..K |-> -1]}

\* tensors of R rows: one row for the first E and one for the rest, or two
\* rows in turn
ArchTensors(R, E, K) ==
    {[p \in 1..R |-> [sel |-> 0, pos |-> p - 1,
                      w |-> IF p <= E THEN a ELSE b]] :
        a \in ArchRows(K), b \in ArchRows(K)}
    \cup {[p \in 1..R |-> [sel |-> 0, pos |-> p - 1,
                           w |-> IF p % 2 = 1 THEN a ELSE b]] :
            a \in ArchRows(K), b \in ArchRows(K)}

\* no call is running
NoPass(called) ==
    [pc |-> "idle", method |-> "none", called |-> called, i |-> 0,
     s0 |-> NoValue, s1 |-> NoValue,
     n_weight |-> <<>>, n_index |-> <<>>, r_weight |-> <<>>, r_index |-> <<>>,
     discarded |-> 0, logits |-> NoValue]

\* the temperatures a caller sets
Taus == {0, 1, 10}

InitPass ==
    /\ IdleUnpack
    /\ IdleMixed
    /\ IdleParse
    /\ IdleCodec
    /\ args \in NetConfigs
    /\ build = [pc |-> "done"]
    /\ net = IF args.cls = "GDAS" THEN GDAS_init(args)
             ELSE [DartsCNN_init(args.C, args.n_classes, args.n_layers,
                                 args.n_nodes, args.basic_op_list)
                       EXCEPT !.cls = args.cls]
    /\ tau = args.tau
    /\ \E B \in Batches : x = Tensor(<<B, 3, 32, 32>>)
    /\ arch \in ArchTensors(net.all_edges, net.num_edges, net.num_ops)
    /\ pass = NoPass({})
    /\ selectorLog = <<>>
    /\ cellLog = <<>>

\* a caller calls net.forward(x, sample), once in a run
CallForward ==
    /\ pass.pc \in {"idle", "done", "raised"}
    /\ "forward" \notin pass.called
    /\ pass' = [NoPass(pass.called \cup {"forward"})
                   EXCEPT !.pc = "stem", !.method = "forward"]
    /\ UNCHANGED <<x, arch, tau, selectorLog, cellLog,
                   unpackVars, mixedVars, parseVars, buildVars, codecVars>>

\* the locals after s0 = s1 = self.stem(x)
AfterStem(p, s) ==
    IF IsRaised(s) THEN [p EXCEPT !.pc = "raised", !.logits = s]
    ELSE [p EXCEPT !.pc = "cells", !.s0 = s, !.s1 = s]

\* the locals after s0, s1 = s1, cell(...)
AfterCell(p, out) ==
    IF IsRaised(out) THEN [p EXCEPT !.pc = "raised", !.logits = out]
    ELSE [p EXCEPT !.i = p.i + 1, !.s0 = p.s1, !.s1 = out]

\* the locals at the return
AfterHead(p, logits) ==
    [p EXCEPT !.pc = IF IsRaised(logits) THEN "raised" ELSE "done",
              !.logits = logits]

\* what the log keeps of a call of a cell
\* the calls edges[i](s, w) / edges[i].forwardGDAS(s, w, it) that node
\* `node` makes over enumerate(zip(states, w_list[, i_list])): the edge
\* called, the entry of states it is called on, and the rows it is handed
NodeCalls(method, node, n_states, w_list, i_list) ==
    [t \in 1..(IF method = "forward" THEN Min(n_states, Len(w_list))
               ELSE Min(n_states, Min(Len(w_list), Len(i_list)))) |->
        [node |-> node, edge |-> t - 1, state |-> t - 1,
         w |-> <<w_list[t].sel, w_list[t].pos>>,
         it |-> IF method = "forward" THEN <<>>
                ELSE <<i_list[t].sel, i_list[t].pos>>]]

\* the calls of one cell forward in the order they are made: states holds
\* 2 + i entries when node i is computed
RECURSIVE DartsCell_calls(_, _, _, _, _)
DartsCell_calls(cell, method, wdag, idag, i) ==
    IF i >= Len(cell.dag) \/ i >= Len(wdag)
       \/ (method = "forwardGDAS" /\ i >= Len(idag))
    THEN <<>>
    ELSE NodeCalls(method, i, 2 + i, wdag[i + 1],
                   IF method = "forwardGDAS" THEN idag[i + 1] ELSE <<>>)
         \o DartsCell_calls(cell, method, wdag, idag, i + 1)

CellCall(method, i, cell, weights, indexs) ==
    [method |-> method, cell |-> i, reduction |-> cell.reduction,
     rows |-> Provenance(weights), index |-> Provenance(indexs),
     calls |-> DartsCell_calls(cell, method,
                  darts_weight_unpack(weights, cell.n_nodes, InputNodes),
                  gdas_indexes_unpack(indexs, cell.n_nodes, InputNodes), 0)]

\* s0 = s1 = self.stem(x)
ForwardStem ==
    /\ pass.method = "forward"
    /\ pass.pc = "stem"
    /\ pass' = AfterStem(pass, Stem(net, x))
    /\ UNCHANGED <<x, arch, tau, selectorLog, cellLog,
                   unpackVars, mixedVars, parseVars, buildVars, codecVars>>

\* one iteration of the loop over self.cells
ForwardCell ==
    /\ pass.method = "forward"
    /\ pass.pc = "cells"
    /\ pass.i < Len(net.cells)
    /\ cellLog' = Append(cellLog,
          CellCall("forward", pass.i, net.cells[pass.i + 1],
                   CellWeights(net, net.cells[pass.i + 1], arch), <<>>))
    /\ pass' = AfterCell(pass,
          DartsCell_forward(net.cells[pass.i + 1], pass.s0, pass.s1,
                            CellWeights(net, net.cells[pass.i + 1], arch)))
    /\ UNCHANGED <<x, arch, tau, selectorLog,
                   unpackVars, mixedVars, parseVars, buildVars, codecVars>>

\* gap, view, linear, return
ForwardHead ==
    /\ pass.method = "forward"
    /\ pass.pc = "cells"
    /\ pass.i >= Len(net.cells)
    /\ pass' = AfterHead(pass, Classifier(net, pass.s1))
    /\ UNCHANGED <<x, arch, tau, selectorLog, cellLog,
                   unpackVars, mixedVars, parseVars, buildVars, codecVars>>

\* a caller calls net.forwardGDAS(x, sample) on a GDAS network, once in a run
CallForwardGDAS ==
    /\ net.cls = "GDAS"
    /\ pass.pc \in {"idle", "done", "raised"}
    /\ "forwardGDAS" \notin pass.called
    /\ pass' = [NoPass(pass.called \cup {"forwardGDAS"})
                   EXCEPT !.pc = "n_gumbel", !.method = "forwardGDAS"]
    /\ UNCHANGED <<x, arch, tau, selectorLog, cellLog,
                   unpackVars, mixedVars, parseVars, buildVars, codecVars>>

\* GDAS.set_tau(tau), between two forward calls
SetTau ==
    /\ net.cls = "GDAS"
    /\ pass.pc \in {"idle", "done", "raised"}
    /\ "set_tau" \notin pass.called
    /\ tau' \in Taus \ {tau}
    /\ pass' = [pass EXCEPT !.called = pass.called \cup {"set_tau"}]
    /\ UNCHANGED <<x, arch, selectorLog, cellLog,
                   unpackVars, mixedVars, parseVars, buildVars, codecVars>>

\* the argument of the call of get_gumbel_prob that is running
Xins ==
    IF pass.pc = "n_gumbel" THEN PySlice(arch, 0, net.num_edges)
    ELSE PySlice(arch, net.num_edges, Len(arch))

\* the locals after n_weight, n_index = ... and r_weight, r_index = ...
AfterGumbel(p, a) ==
    IF p.pc = "n_gumbel"
    THEN [p EXCEPT !.pc = "r_gumbel",
                   !.n_weight = a.hardwts, !.n_index = a.index]
    ELSE [p EXCEPT !.pc = "stem",
                   !.r_weight = a.hardwts, !.r_index = a.index]

\* an attempt of get_gumbel_prob that is degenerate: continue.  The loop
\* has no cap; discarded counts the attempts the forward call has thrown
\* away, up to MaxRetries
GumbelDiscard ==
    /\ pass.pc \in {"n_gumbel", "r_gumbel"}
    /\ \E pattern \in NoisePatterns, inf \in BOOLEAN :
       \E xins \in {Xins} :
       \E gumbels \in {Gumbels(xins, pattern, inf)} :
          GumbelAttempt(xins, gumbels, tau, Len(selectorLog) + 1).degenerate
    /\ pass' = [pass EXCEPT !.discarded = Min(pass.discarded + 1, MaxRetries)]
    /\ UNCHANGED <<x, arch, tau, selectorLog, cellLog,
                   unpackVars, mixedVars, parseVars, buildVars, codecVars>>

\* an attempt that is not: break, return hardwts, index
GumbelReturn ==
    /\ pass.pc \in {"n_gumbel", "r_gumbel"}
    /\ \E pattern \in NoisePatterns, inf \in BOOLEAN :
       \E xins \in {Xins} :
       \E gumbels \in {Gumbels(xins, pattern, inf)} :
       \E a \in {GumbelAttempt(xins, gumbels, tau, Len(selectorLog) + 1)} :
          /\ ~a.degenerate
          /\ pass' = AfterGumbel(pass, a)
          /\ selectorLog' = Append(selectorLog,
                [xins |-> Provenance(xins), tau |-> tau, gumbels |-> gumbels])
    /\ UNCHANGED <<x, arch, tau, cellLog,
                   unpackVars, mixedVars, parseVars, buildVars, codecVars>>

\* s0=s1=self.stem(x)
GDASStem ==
    /\ pass.method = "forwardGDAS"
    /\ pass.pc = "stem"
    /\ pass' = AfterStem(pass, Stem(net, x))
    /\ UNCHANGED <<x, arch, tau, selectorLog, cellLog,
                   unpackVars, mixedVars, parseVars, buildVars, codecVars>>

\* if cell.reduction: weight, index = r_weight, r_index
\* else:              weight, index = n_weight, n_index
CellPair(cell, p) ==
    IF cell.reduction THEN [weight |-> p.r_weight, index |-> p.r_index]
    ELSE [weight |-> p.n_weight, index |-> p.n_index]

\* one iteration of the loop over enumerate(self.cells)
GDASCell ==
    /\ pass.method = "forwardGDAS"
    /\ pass.pc = "cells"
    /\ pass.i < Len(net.cells)
    /\ cellLog' = Append(cellLog,
          CellCall("forwardGDAS", pass.i, net.cells[pass.i + 1],
                   CellPair(net.cells[pass.i + 1], pass).weight,
                   CellPair(net.cells[pass.i + 1], pass).index))
    /\ pass' = AfterCell(pass,
          DartsCell_forwardGDAS(net.cells[pass.i + 1], pass.s0, pass.s1,
                                CellPair(net.cells[pass.i + 1], pass).weight,
                                CellPair(net.cells[pass.i + 1], pass).index))
    /\ UNCHANGED <<x, arch, tau, selectorLog,
                   unpackVars, mixedVars, parseVars, buildVars, codecVars>>

\* gap, view, linear, return
GDASHead ==
    /\ pass.method = "forwardGDAS"
    /\ pass.pc = "cells"
    /\ pass.i >= Len(net.cells)
    /\ pass' = AfterHead(pass, Classifier(net, pass.s1))
    /\ UNCHANGED <<x, arch, tau, selectorLog, cellLog,
                   unpackVars, mixedVars, parseVars, buildVars, codecVars>>

NextPass ==
    \/ CallForward
    \/ ForwardStem
    \/ ForwardCell
    \/ ForwardHead
    \/ CallForwardGDAS
    \/ GumbelDiscard
    \/ GumbelReturn
    \/ GDASStem
    \/ GDASCell
    \/ GDASHead

\* the forward passes of a network whose temperature stays as constructed
SpecPass == InitPass /\ [][NextPass]_vars

\* the calls of GDAS alone: forwardGDAS and set_tau on a GDAS network
InitGDAS == InitPass /\ net.cls = "GDAS"

NextGDAS ==
    \/ CallForwardGDAS
    \/ SetTau
    \/ GumbelDiscard
    \/ GumbelReturn
    \/ GDASStem
    \/ GDASCell
    \/ GDASHead

\* a draw of noise that is not degenerate is eventually made
SpecGDAS == InitGDAS /\ [][NextGDAS]_vars /\ WF_vars(GumbelReturn)

----------------------------------------------------------------------------
(* C9, C10 *)

\* rows a .. b-1 of the tensor the caller handed in
CallerRows(a, b) == [r \in 1..(b - a) |-> <<0, a + r - 1>>]

\* the rows of the tensors that call sel of get_gumbel_prob returned
SelectorRows(sel) == [r \in 1..Len(selectorLog[sel].xins) |-> <<sel, r - 1>>]

\* the rows that reach the edges of a cell of n nodes handed these rows
RECURSIVE Flatten(_)
Flatten(groups) ==
    IF groups = <<>> THEN <<>> ELSE Head(groups) \o Flatten(Tail(groups))

EdgeRows(n, rows) == Flatten(darts_weight_unpack(rows, n, InputNodes))

\* C9: in DartsCNN.forward every non-reduction cell is handed, and its edges
\* use, exactly the first num_edges rows of the caller's tensor and every
\* reduction cell exactly the remaining rows; in GDAS.forwardGDAS
\* get_gumbel_prob returns once for the first num_edges rows and once for
\* the remaining rows, before any cell runs, and every cell is handed the
\* (hardwts, index) pair sampled for its kind.
C9_TiedWeights ==
    /\ \A k \in 1..Len(cellLog) :
          cellLog[k].method = "forward" =>
             /\ cellLog[k].rows = IF cellLog[k].reduction
                                  THEN CallerRows(net.num_edges, Len(arch))
                                  ELSE CallerRows(0, net.num_edges)
             /\ EdgeRows(net.n_nodes, cellLog[k].rows) = cellLog[k].rows
    /\ Len(selectorLog) <= 2
    /\ Len(selectorLog) >= 1 => selectorLog[1].xins = CallerRows(0, net.num_edges)
    /\ Len(selectorLog) >= 2
          => selectorLog[2].xins = CallerRows(net.num_edges, Len(arch))
    /\ pass.method = "forwardGDAS" =>
          /\ pass.pc = "r_gumbel" => Len(selectorLog) = 1
          /\ pass.pc \in {"stem", "cells", "done", "raised"} => Len(selectorLog) = 2
          /\ pass.n_weight # <<>> =>
                /\ Provenance(pass.n_weight) = SelectorRows(1)
                /\ Provenance(pass.n_index) = SelectorRows(1)
          /\ pass.r_weight # <<>> =>
                /\ Provenance(pass.r_weight) = SelectorRows(2)
                /\ Provenance(pass.r_index) = SelectorRows(2)
    /\ \A k \in 1..Len(cellLog) :
          cellLog[k].method = "forwardGDAS" =>
             /\ Len(selectorLog) = 2
             /\ cellLog[k].rows = SelectorRows(IF cellLog[k].reduction THEN 2 ELSE 1)
             /\ cellLog[k].index = cellLog[k].rows

\* both methods have run over cells of both kinds, and the two calls of
\* get_gumbel_prob did not select the same primitives
C9_Witness ==
    /\ pass.method = "forwardGDAS"
    /\ pass.pc = "done"
    /\ \A m \in {"forward", "forwardGDAS"}, red \in BOOLEAN :
          Cardinality({k \in 1..Len(cellLog) :
              cellLog[k].method = m /\ cellLog[k].reduction = red}) >= 2
    /\ [r \in 1..Len(pass.n_index) |-> pass.n_index[r].i]
          # [r \in 1..Len(pass.r_index) |-> pass.r_index[r].i]

\* the network of the repository test: C=16, 10 classes, 8 layers, 4 nodes,
\* 8 names ending in 'none'
TestNetwork ==
    /\ net.C = 16
    /\ net.n_classes = 10
    /\ net.n_layers = 8
    /\ net.n_nodes = 4
    /\ Len(net.basic_op_list) = 8
    /\ net.basic_op_list[8] = "none"

\* C10: on that network a forward pass (forward or forwardGDAS) over a
\* batch of B images of 3x32x32 with a weight tensor of 2 * num_edges rows
\* completes, and returns logits of shape (B, 10).
C10_ForwardCompletes ==
    (/\ TestNetwork
     /\ Len(arch) = 2 * net.num_edges
     /\ pass.pc \in {"done", "raised"})
    => /\ pass.pc = "done"
       /\ pass.logits = Tensor(<<x.shape[1], 10>>)

\* the logits that call sel of get_gumbel_prob was handed
SelectorXins(sel) ==
    IF sel = 1 THEN PySlice(arch, 0, net.num_edges)
    ELSE PySlice(arch, net.num_edges, Len(arch))

\* the attempt that call sel returned was not degenerate, and the pair
\* (hardwts, index) it returned selects in every row the largest entry of
\* that attempt's probs, hardwts being 1 there and 0 elsewhere
AcceptedAttempt(sel, hardwts, index) ==
    /\ ~selectorLog[sel].gumbels.inf
    /\ selectorLog[sel].tau # 0
    /\ Len(index) = Len(SelectorXins(sel))
    /\ Len(hardwts) = Len(SelectorXins(sel))
    /\ \A probs \in {Probs(SelectorXins(sel), selectorLog[sel].gumbels,
                            selectorLog[sel].tau)} :
       \A r \in 1..Len(index) :
          /\ index[r].i + 1 \in 1..Len(probs[r])
          /\ \A c \in 1..Len(probs[r]) : probs[r][c] <= probs[r][index[r].i + 1]
          /\ hardwts[r].w = [c \in 1..Len(probs[r]) |->
                                IF c = index[r].i + 1 THEN 2 ELSE 0]

SelectorReturnsAccepted ==
    pass.method = "forwardGDAS" =>
       /\ pass.n_weight # <<>> =>
             AcceptedAttempt(1, pass.n_weight, pass.n_index)
       /\ pass.r_weight # <<>> =>
             AcceptedAttempt(2, pass.r_weight, pass.r_index)

\* C12: get_gumbel_prob draws noise afresh in every attempt; an attempt
\* whose noise is infinite or whose probs hold an infinity or a NaN is
\* thrown away and never returned; the returned index is the arg-max of the
\* accepted attempt's probs and hardwts is one-hot there; and when a draw
\* that is not degenerate is eventually made, each of the two calls that
\* forwardGDAS makes returns.
C12_GumbelSelector ==
    /\ []SelectorReturnsAccepted
    /\ (pass.pc = "n_gumbel" /\ tau # 0) ~> (pass.pc = "r_gumbel")
    /\ (pass.pc = "r_gumbel" /\ tau # 0) ~> (pass.pc = "stem")

\* forwardGDAS has gone through both calls after an attempt was thrown away
C12_Witness ==
    /\ pass.method = "forwardGDAS"
    /\ pass.pc = "done"
    /\ pass.discarded > 0
    /\ Len(selectorLog) = 2

\* the temperature is written by set_tau alone
TauWrittenBySetTau == [][tau' # tau => SetTau]_vars

\* C13: a GDAS network built from (C, n_classes, n_layers, n_nodes,
\* basic_op_list, tau) has the structure of the DartsCNN built from the same
\* (C, n_classes, n_layers, n_nodes, basic_op_list): n_layers cells of
\* n_nodes nodes, num_edges = sum_{i<n_nodes}(2+i), that vocabulary on every
\* edge and n_classes outputs.
C13_GDASStructure ==
    net.cls = "GDAS" =>
       /\ net = [DartsCNN_init(args.C, args.n_classes, args.n_layers,
                               args.n_nodes, args.basic_op_list)
                    EXCEPT !.cls = "GDAS"]
       /\ Len(net.cells) = args.n_layers
       /\ net.n_nodes = args.n_nodes
       /\ net.num_edges = NumEdges(args.n_nodes)
       /\ net.linear.C_out = args.n_classes

\* the edges (i, j) of a cell: node i, predecessor j, both counted from 0
CellEdges(cell) ==
    UNION {{<<i - 1, j - 1>> : j \in 1..Len(cell.dag[i])} :
              i \in 1..Len(cell.dag)}

CellWellFormed(cell, N) ==
    /\ Len(cell.dag) = N
    /\ \A i \in 0..(N - 1) :
          /\ Len(cell.dag[i + 1]) = 2 + i
          /\ \A j \in 0..(i + 1) :
                (cell.dag[i + 1][j + 1].stride = 2) <=> (cell.reduction /\ j < 2)
          /\ \A j \in 0..(i + 1) :
                cell.dag[i + 1][j + 1].stride \in {1, 2}
    /\ 2 * Cardinality(CellEdges(cell)) = N * (N + 3)

\* C14: a DartsCell of N nodes has for node i exactly 2+i edges, one per
\* predecessor j in 0..i+1, hence sum_{i<N}(2+i) edges in all, which is the
\* network's num_edges (all_edges being twice that); edge (i, j) has stride
\* 2 if and only if the cell is a reduction cell and j < 2, and stride 1
\* otherwise.
C14_CellEdges ==
    /\ build.pc = "cells" =>
          \A k \in 1..Len(build.cells) :
              CellWellFormed(build.cells[k], args.n_nodes)
    /\ net.cls # "none" =>
          /\ \A k \in 1..Len(net.cells) :
                /\ CellWellFormed(net.cells[k], args.n_nodes)
                /\ Cardinality(CellEdges(net.cells[k])) = net.num_edges
          /\ 2 * net.num_edges = args.n_nodes * (args.n_nodes + 3)
          /\ net.all_edges = 2 * net.num_edges

\* a network is built whose reduction cell has an edge between two of its
\* own nodes, next to a cell that is not a reduction cell
C14_Witness ==
    /\ net.cls # "none"
    /\ \E k \in 1..Len(net.cells) :
          /\ net.cells[k].reduction
          /\ <<1, 2>> \in CellEdges(net.cells[k])
    /\ \E k \in 1..Len(net.cells) : ~net.cells[k].reduction

\* the position of edge (i, j) in the flat sequence: sum_{m<i}(2+m) + j
FlatPosition(i, j) == SumSeq([m \in 1..i |-> m + 1]) + j

\* cell call k of the log returned a value
CellReturned(k) == k \in 1..Len(cellLog) /\ (k < Len(cellLog) \/ pass.pc # "raised")

\* the calls of cell call k (each call is the last of the log when it
\* returns) visit the nodes in ascending order, each edge
\* (i, j) once, on entry j of states, with the flat entries at
\* FlatPosition(i, j), and use every flat entry once
CallsInOrder(k) ==
    /\ \A a, b \in 1..Len(cellLog[k].calls) :
          a < b => \/ cellLog[k].calls[a].node < cellLog[k].calls[b].node
                   \/ /\ cellLog[k].calls[a].node = cellLog[k].calls[b].node
                      /\ cellLog[k].calls[a].edge < cellLog[k].calls[b].edge
    /\ {<<cellLog[k].calls[a].node, cellLog[k].calls[a].edge>> :
            a \in 1..Len(cellLog[k].calls)}
          = {e \in (0..net.n_nodes - 1) \X (0..net.n_nodes) : e[2] <= e[1] + 1}
    /\ \A a \in 1..Len(cellLog[k].calls) :
          /\ cellLog[k].calls[a].state = cellLog[k].calls[a].edge
          /\ cellLog[k].calls[a].state < 2 + cellLog[k].calls[a].node
          /\ cellLog[k].calls[a].w
                = cellLog[k].rows[FlatPosition(cellLog[k].calls[a].node,
                                               cellLog[k].calls[a].edge) + 1]
          /\ cellLog[k].method = "forwardGDAS" =>
                cellLog[k].calls[a].it
                   = cellLog[k].index[FlatPosition(cellLog[k].calls[a].node,
                                                   cellLog[k].calls[a].edge) + 1]
    /\ Len(cellLog[k].calls) = Len(cellLog[k].rows)
    /\ \A r \in 1..Len(cellLog[k].rows) :
          Cardinality({a \in 1..Len(cellLog[k].calls) :
                          cellLog[k].calls[a].w = cellLog[k].rows[r]}) = 1

\* the value the last cell call returned is N node values of C channels
\* side by side
LastCellOutput ==
    (Len(cellLog) > 0 /\ pass.pc \in {"cells", "done"}
        /\ cellLog[Len(cellLog)].method = pass.method)
    => /\ Is4D(pass.s1)
       /\ pass.s1.shape[2]
             = net.n_nodes * net.cells[cellLog[Len(cellLog)].cell + 1].C

\* C15: in DartsCell.forward and DartsCell.forwardGDAS handed num_edges flat
\* entries, the nodes are computed in ascending order; the edge from
\* predecessor j into node i is called once, on the computed value of
\* predecessor j < 2+i, with the flat entry at sum_{m<i}(2+m) + j (weight
\* row and, for forwardGDAS, index); every flat entry is used by one edge;
\* the output concatenates the N node values without the two inputs.
C15_EdgeOrder ==
    /\ (CellReturned(Len(cellLog))
           /\ Len(cellLog[Len(cellLog)].rows) = net.num_edges)
          => CallsInOrder(Len(cellLog))
    /\ LastCellOutput

\* both methods have returned from a reduction cell of at least two nodes
C15_Witness ==
    /\ net.n_nodes >= 2
    /\ \A m \in {"forward", "forwardGDAS"} :
          \E k \in 1..Len(cellLog) :
              /\ cellLog[k].method = m
              /\ cellLog[k].reduction
              /\ CellReturned(k)
              /\ Len(cellLog[k].calls) = net.num_edges

\* height and width of a 4-D value
Spatial(v) == <<v.shape[3], v.shape[4]>>

\* the values that the edges into node i return in DartsCell.forward
EdgeValues(cell, i, states, w_list) ==
    [j \in 1..Min(Len(states), Len(w_list)) |->
        MixedOp_forward_value(cell.dag[i + 1][j], cell.basic_op_list,
                              states[j], w_list[j].w)]

\* no edge fails on a shape, and the tensors the edges return agree in size
SameSpatial(values) ==
    /\ \A j \in 1..Len(values) : values[j].kind # "RuntimeError"
    /\ \A j, k \in 1..Len(values) :
          (Is4D(values[j]) /\ Is4D(values[k]))
             => Spatial(values[j]) = Spatial(values[k])

RECURSIVE NodesConsistent(_, _, _, _)

\* the edges into node i agree, and so do those of the nodes after it
NodeConsistent(cell, wdag, i, states, values) ==
    /\ SameSpatial(values)
    /\ IsRaised(SumValues(values, Number))
       \/ NodesConsistent(cell, wdag, i + 1,
                          Append(states, SumValues(values, Number)))

NodesConsistent(cell, wdag, i, states) ==
    IF i >= Len(cell.dag) \/ i >= Len(wdag) THEN TRUE
    ELSE NodeConsistent(cell, wdag, i, states,
                        EdgeValues(cell, i, states, wdag[i + 1]))

\* the two preprocessed inputs have the cell's width and one spatial size,
\* preproc0 halving s0 exactly when the previous cell was a reduction cell
PreprocConsistent(cell, s0, p0, p1) ==
    /\ Is4D(p0)
    /\ Is4D(p1)
    /\ p0.shape[2] = cell.C
    /\ p1.shape[2] = cell.C
    /\ Spatial(p0) = Spatial(p1)
    /\ Spatial(p0) = IF cell.reduction_p
                     THEN <<s0.shape[3] \div 2, s0.shape[4] \div 2>>
                     ELSE Spatial(s0)

\* what cell `cell` is handed in DartsCNN.forward, and what it makes of it
CellConsistent(cell, s0, s1, weights) ==
    /\ Is4D(s0)
    /\ Is4D(s1)
    /\ s0.shape[2] = cell.C_pp
    /\ s1.shape[2] = cell.C_p
    /\ PreprocConsistent(cell, s0, Preproc(cell.preproc0, s0),
                         Preproc(cell.preproc1, s1))
    /\ NodesConsistent(cell,
          darts_weight_unpack(weights, cell.n_nodes, InputNodes), 0,
          <<Preproc(cell.preproc0, s0), Preproc(cell.preproc1, s1)>>)

\* C16: for L >= 1 and N >= 1, in DartsCNN.forward every cell receives s0
\* and s1 with the channel counts C_pp and C_p it was built with; the
\* preprocessed inputs have the cell's width and the same spatial size;
\* all edges into one node return the same spatial size; and the
\* classifier's input width is the last cell's output width.
C16_ShapeConsistency ==
    (pass.method = "forward" /\ pass.pc = "cells" /\ net.n_layers >= 1)
    => /\ pass.i < Len(net.cells) =>
             CellConsistent(net.cells[pass.i + 1], pass.s0, pass.s1,
                            CellWeights(net, net.cells[pass.i + 1], arch))
       /\ pass.i = Len(net.cells) =>
             /\ Is4D(pass.s1)
             /\ pass.s1.shape[2] = net.linear.C_in

\* the same, on the networks whose vocabulary lacks conv_7x1_1x7
ShapeConsistency_sized ==
    (\A t \in 1..Len(net.basic_op_list) : net.basic_op_list[t] # "conv_7x1_1x7")
       => C16_ShapeConsistency

\* C17: for every weight vector of the right length, one with no entry in
\* (0,1] included, _MixedOp.forward returns a value of the kind of its
\* primitives' output, a tensor.
C17_ForwardReturnsTensor ==
    (call.method = "forward" /\ Len(call.weights) = Len(ops))
       => call.out.kind = "tensor"

====
